---- MODULE Spec2Model ----
(***************************************************************************)
(* Model of src/src/model/register_model.py: main() registers the model    *)
(* "sentiment_model" in a remote MLflow model registry, first from the run *)
(* named in reports/experiment_info.json and, failing that, directly from  *)
(* ./models/model.pkl, and then writes reports/registered_model_info.json. *)
(* The registry is the remote tracking server set up at module import; it  *)
(* is shared with other clients, which act between main's calls.           *)
(***************************************************************************)
EXTENDS Integers, Sequences, FiniteSets, TLC

\* ------------------------------------------------------------------ bounds
\* versions already in the registry when main starts: 0..MaxInitVersions
MaxInitVersions == 9
\* registry operations of other clients while main runs
MaxOtherOps == 2

\* ------------------------------------------------------- python primitives
DigitChars == <<"0", "1", "2", "3", "4", "5", "6", "7", "8", "9">>

DigitVal(c) == (CHOOSE i \in 1..10 : DigitChars[i] = c) - 1

\* str(n) for n >= 0: the decimal digits, most significant first
RECURSIVE ToStr(_)
ToStr(n) == IF n < 10 THEN <<DigitChars[n + 1]>>
            ELSE Append(ToStr(n \div 10), DigitChars[(n % 10) + 1])

\* int(s) for a string of decimal digits
RECURSIVE ToInt(_)
ToInt(s) == IF Len(s) = 0 THEN 0
            ELSE 10 * ToInt(SubSeq(s, 1, Len(s) - 1)) + DigitVal(s[Len(s)])

\* python's < on strings of digits: lexicographic, a proper prefix is smaller
RECURSIVE StrLess(_, _)
StrLess(a, b) == IF Len(b) = 0 THEN FALSE
                 ELSE IF Len(a) = 0 THEN TRUE
                 ELSE IF a[1] # b[1] THEN DigitVal(a[1]) < DigitVal(b[1])
                 ELSE StrLess(Tail(a), Tail(b))

\* python values that reach json.dump, tagged with their type
PyStr(s) == [type |-> "str", v |-> s]
PyNone == [type |-> "NoneType", v |-> <<>>]

\* ------------------------------------------------------------- exceptions
\* an exception: its class, the function whose body raised it, the call that did
NoExc == [cls |-> "None", fn |-> "", at |-> ""]
Exc(cls, fn, at) == [cls |-> cls, fn |-> fn, at |-> at]

\* the classes an exception of class cls is an instance of
Bases(cls) ==
    CASE cls = "FileNotFoundError" -> {"FileNotFoundError", "OSError", "Exception"}
      [] cls = "PermissionError"   -> {"PermissionError", "OSError", "Exception"}
      [] cls = "OSError"           -> {"OSError", "Exception"}
      [] cls = "JSONDecodeError"   -> {"JSONDecodeError", "ValueError", "Exception"}
      [] cls = "ValueError"        -> {"ValueError", "Exception"}
      [] cls = "KeyError"          -> {"KeyError", "LookupError", "Exception"}
      [] cls = "UnpicklingError"   -> {"UnpicklingError", "PickleError", "Exception"}
      [] cls = "MlflowException"   -> {"MlflowException", "Exception"}
      [] OTHER                     -> {}

IsInstance(e, classes) == Bases(e.cls) \cap classes # {}

LogEntry(level, fn, e) == [level |-> level, fn |-> fn, exc |-> e]

\* ------------------------------------------------------------------ state
VARIABLES
    pc,              \* main's position: the call it makes next
    expInfo,         \* reports/experiment_info.json on disk
    pklFile,         \* ./models/model.pkl on disk
    runArtifacts,    \* tracking server: top-level artifact paths of run "r1"
    registry,        \* model registry: the versions of "sentiment_model"
    lastVersion,     \* model registry: the last version number given out
    otherOps,        \* registry operations other clients have made
    run_id,          \* main: model_info['run_id']
    model_path,      \* main: model_info['model_path']
    model_file_path, \* main: the fallback's file, "" until it is set
    artifacts,       \* register_model_from_run: verify_run_artifacts' result
    model_details,   \* register_model_from_run: model_details.version
    latest_version,  \* register_model_directly: latest_version
    version,         \* main: version
    outFile,         \* reports/registered_model_info.json on disk
    exc,             \* the exception main ended with, NoExc if none
    log,             \* the records logged so far
    calls,           \* the tracking-server calls made so far
    firstError       \* the exception that ended the from-run attempt

vars == <<pc, expInfo, pklFile, runArtifacts, registry, lastVersion, otherOps,
          run_id, model_path, model_file_path, artifacts, model_details,
          latest_version, version, outFile, exc, log, calls, firstError>>

inputs == <<expInfo, pklFile, runArtifacts>>
locals == <<run_id, model_path, model_file_path, artifacts, model_details,
            latest_version>>

model_name == "sentiment_model"

\* the contents reports/experiment_info.json may have
JsonKeys == {"run_id", "model_path"}
JsonStrings == {"r1", "r0", "model", "model.pkl"}
JsonValueOf(k) == IF k = "run_id" THEN {"r1", "r0"} ELSE {"model", "model.pkl"}
JsonObjects ==
    UNION {{f \in [K -> JsonStrings] : \A k \in K : f[k] \in JsonValueOf(k)} :
           K \in SUBSET JsonKeys}
ExpInfos ==
    {[status |-> s, json |-> <<>>] : s \in {"missing", "denied", "badjson"}}
    \cup {[status |-> "ok", json |-> j] : j \in JsonObjects}

\* the artifact listings run "r1" may have; run "r0" is unknown to the server
ArtifactLists == {<<>>, <<"model">>, <<"metrics", "model">>, <<"model.pkl">>}

NoFile == [written |-> FALSE, json |-> <<>>]

Init ==
    /\ pc = "load_model_info"
    /\ expInfo \in ExpInfos
    /\ pklFile \in {"ok", "missing", "corrupt"}
    /\ runArtifacts \in ArtifactLists
    /\ \E n \in 0..MaxInitVersions :
         /\ registry = {[version |-> v, source |-> "earlier", stage |-> "None"] :
                        v \in 1..n}
         /\ lastVersion = n
    /\ otherOps = 0
    /\ run_id = ""
    /\ model_path = ""
    /\ model_file_path = ""
    /\ artifacts = <<>>
    /\ model_details = <<>>
    /\ latest_version = 0
    /\ version = PyNone
    /\ outFile = NoFile
    /\ exc = NoExc
    /\ log = <<>>
    /\ calls = <<>>
    /\ firstError = NoExc

\* ------------------------------------------------------- except handlers
\* Each handler gives the records it logs and what leaves the function:
\* the exception it raises, or (verify_run_artifacts) the value it returns.
load_model_info_except(e) ==
    [entries |-> <<LogEntry("error", "load_model_info", e)>>, raised |-> e]

verify_run_artifacts_except(e) ==
    [entries |-> <<LogEntry("error", "verify_run_artifacts", e)>>,
     returned |-> <<>>]

register_model_from_run_except(e) ==
    [entries |-> <<LogEntry("error", "register_model_from_run", e)>>,
     raised |-> e]

register_model_directly_except(e) ==
    [entries |-> <<LogEntry("error", "register_model_directly", e)>>,
     raised |-> e]

save_registered_model_info_wraps(e) ==
    [entries |-> <<LogEntry("error", "save_registered_model_info", e)>>,
     raised |-> Exc("RuntimeError", "save_registered_model_info", "except")]

save_registered_model_info_except(e) ==
    [entries |-> <<LogEntry("error", "save_registered_model_info", e)>>,
     raised |-> e]

main_except(e) ==
    [entries |-> <<LogEntry("error", "main", e)>>, raised |-> e]

main_fallback_catches_missing_file(e) == IsInstance(e, {"FileNotFoundError"})

\* main's inner clause: except (FileNotFoundError, ValueError)
main_fallback_catches(e) == IsInstance(e, {"FileNotFoundError", "ValueError"})

\* main's outer handler takes e: main ends with the exception it re-raises
MainRaises(before, e) ==
    LET m == main_except(e)
    IN  /\ pc' = "raised"
        /\ exc' = m.raised
        /\ log' = log \o before \o m.entries

\* an exception e leaves the from-run attempt (with `before` logged on its
\* way): the inner clause starts the fallback, or the outer handler takes it
FirstAttemptRaises(before, e) ==
    /\ firstError' = e
    /\ IF main_fallback_catches(e)
       THEN /\ pc' = "pickle_load"
            /\ model_file_path' = "./models/model.pkl"
            /\ exc' = exc
            /\ log' = log \o before \o <<LogEntry("warning", "main", e),
                                         LogEntry("info", "main", NoExc)>>
       ELSE /\ MainRaises(before, e)
            /\ model_file_path' = model_file_path

\* ------------------------------------------------------ tracking server
Call(api, arg, ver, ok) == [api |-> api, arg |-> arg, version |-> ver, ok |-> ok]

\* client.list_artifacts(run_id): the paths, or an error for an unknown run
KnownRun(r) == r = "r1"

\* a new version of the model, numbered after the last one given out
NewVersion(source) ==
    [version |-> lastVersion + 1, source |-> source, stage |-> "None"]

\* the registry has the version a version string names
HasVersion(vstr) == \E mv \in registry : mv.version = ToInt(vstr)

\* transition_model_version_stage(..., archive_existing_versions=False)
Transitioned(vstr, stage) ==
    {IF mv.version = ToInt(vstr) THEN [mv EXCEPT !.stage = stage] ELSE mv :
     mv \in registry}

\* client.search_model_versions("name='sentiment_model'"): the version
\* strings of the model's versions, newest first
RECURSIVE VersionList(_)
VersionList(S) ==
    IF S = {} THEN <<>>
    ELSE LET top == CHOOSE mv \in S : \A o \in S : o.version <= mv.version
         IN  <<ToStr(top.version)>> \o VersionList(S \ {top})

\* ------------------------------------------------- register_model_from_run
model_path_in_nonempty(path, list) == list # <<>>

\* `model_path not in artifacts` is false
model_path_in(path, list) == \E i \in 1..Len(list) : list[i] = path

model_uri_without_path(rid, path) == "runs:/" \o rid

\* f"runs:/{run_id}/{model_path}"
model_uri(rid, path) == "runs:/" \o rid \o "/" \o path

\* ------------------------------------------------- register_model_directly
latest_version_by_string(model_versions) ==
    LET best == CHOOSE i \in 1..Len(model_versions) :
                  \A j \in 1..Len(model_versions) :
                    ~StrLess(model_versions[i], model_versions[j])
    IN  ToInt(model_versions[best])

\* max([int(mv.version) for mv in model_versions])
latest_version_of(model_versions) ==
    LET ints == [i \in 1..Len(model_versions) |-> ToInt(model_versions[i])]
    IN  CHOOSE n \in {ints[i] : i \in 1..Len(ints)} :
          \A i \in 1..Len(ints) : ints[i] <= n

returned_as_int(latest) == [type |-> "int", v |-> latest]

\* return str(latest_version)
register_model_directly_return(latest) == PyStr(ToStr(latest))

\* ---------------------------------------------- save_registered_model_info
registered_info_with_input_stage(name, ver) ==
    [model_name |-> name, version |-> ver, stage |-> "None"]

\* registered_info: the object json.dump writes
registered_info(name, ver) ==
    [model_name |-> name, version |-> ver, stage |-> "Staging"]

\* ---------------------------------------------------------------- actions
Running == pc \notin {"done", "raised"}

\* main: load_model_info('reports/experiment_info.json') and the two key
\* reads that follow it
LoadModelInfo ==
    /\ pc = "load_model_info"
    /\ IF expInfo.status # "ok"
       THEN LET e == CASE expInfo.status = "missing" ->
                            Exc("FileNotFoundError", "load_model_info", "open")
                       [] expInfo.status = "denied" ->
                            Exc("PermissionError", "load_model_info", "open")
                       [] OTHER -> Exc("JSONDecodeError", "load_model_info", "json.load")
                h == load_model_info_except(e)
            IN  /\ FirstAttemptRaises(h.entries, h.raised)
                /\ UNCHANGED <<run_id, model_path>>
       ELSE LET loaded == <<LogEntry("info", "load_model_info", NoExc)>>
            IN  IF JsonKeys \subseteq DOMAIN expInfo.json
                THEN /\ run_id' = expInfo.json["run_id"]
                     /\ model_path' = expInfo.json["model_path"]
                     /\ log' = log \o loaded \o <<LogEntry("info", "main", NoExc)>>
                     /\ pc' = "verify_run_artifacts"
                     /\ UNCHANGED <<model_file_path, exc, firstError>>
                ELSE /\ FirstAttemptRaises(loaded, Exc("KeyError", "main", "model_info[key]"))
                     /\ UNCHANGED <<run_id, model_path>>
    /\ UNCHANGED <<inputs, registry, lastVersion, otherOps, artifacts,
                   model_details, latest_version, version, outFile, calls>>

\* register_model_from_run: verify_run_artifacts(run_id) and the check of
\* model_path against its result
VerifyRunArtifacts ==
    /\ pc = "verify_run_artifacts"
    /\ \E reachable \in BOOLEAN :
         LET ok == reachable /\ KnownRun(run_id)
             v == IF ok
                  THEN [entries |-> <<LogEntry("info", "verify_run_artifacts", NoExc)>>,
                        returned |-> runArtifacts]
                  ELSE verify_run_artifacts_except(
                           Exc("MlflowException", "verify_run_artifacts",
                               "list_artifacts"))
         IN  /\ calls' = Append(calls, Call("list_artifacts", run_id, <<>>, ok))
             /\ artifacts' = v.returned
             /\ IF model_path_in(model_path, v.returned)
                THEN /\ pc' = "register_model"
                     /\ log' = log \o v.entries
                     /\ UNCHANGED <<model_file_path, exc, firstError>>
                ELSE LET h == register_model_from_run_except(
                                  Exc("ValueError", "register_model_from_run",
                                      "model_path not in artifacts"))
                     IN  FirstAttemptRaises(v.entries \o h.entries, h.raised)
    /\ UNCHANGED <<inputs, registry, lastVersion, otherOps, run_id, model_path,
                   model_details, latest_version, version, outFile>>

\* register_model_from_run: mlflow.register_model(model_uri, model_name)
RegisterModel ==
    /\ pc = "register_model"
    /\ \E ok \in BOOLEAN :
         LET uri == model_uri(run_id, model_path)
         IN  IF ok
             THEN /\ registry' = registry \cup {NewVersion(uri)}
                  /\ lastVersion' = lastVersion + 1
                  /\ model_details' = ToStr(lastVersion + 1)
                  /\ calls' = Append(calls, Call("register_model", uri,
                                                 ToStr(lastVersion + 1), TRUE))
                  /\ log' = log \o <<LogEntry("info", "register_model_from_run", NoExc),
                                     LogEntry("info", "register_model_from_run", NoExc)>>
                  /\ pc' = "transition_from_run"
                  /\ UNCHANGED <<model_file_path, exc, firstError>>
             ELSE LET h == register_model_from_run_except(
                               Exc("MlflowException", "register_model_from_run",
                                   "register_model"))
                  IN  /\ calls' = Append(calls, Call("register_model", uri, <<>>, FALSE))
                      /\ FirstAttemptRaises(h.entries, h.raised)
                      /\ UNCHANGED <<registry, lastVersion, model_details>>
    /\ UNCHANGED <<inputs, otherOps, run_id, model_path, artifacts,
                   latest_version, version, outFile>>

\* register_model_from_run: transition_model_version_stage to "Staging" and
\* the return of model_details.version to main
TransitionFromRun ==
    /\ pc = "transition_from_run"
    /\ \E reachable \in BOOLEAN :
         LET ok == reachable /\ HasVersion(model_details)
         IN  /\ calls' = Append(calls, Call("transition_model_version_stage",
                                            model_name, model_details, ok))
             /\ IF ok
                THEN /\ registry' = Transitioned(model_details, "Staging")
                     /\ version' = PyStr(model_details)
                     /\ log' = Append(log, LogEntry("info", "register_model_from_run", NoExc))
                     /\ pc' = "save"
                     /\ UNCHANGED <<model_file_path, exc, firstError>>
                ELSE LET h == register_model_from_run_except(
                                  Exc("MlflowException", "register_model_from_run",
                                      "transition_model_version_stage"))
                     IN  /\ FirstAttemptRaises(h.entries, h.raised)
                         /\ UNCHANGED <<registry, version>>
    /\ UNCHANGED <<inputs, lastVersion, otherOps, run_id, model_path, artifacts,
                   model_details, latest_version, outFile>>

\* an exception e leaves register_model_directly: main's outer handler
DirectRaises(before, e) ==
    LET h == register_model_directly_except(e)
    IN  MainRaises(before \o h.entries, h.raised)

\* register_model_directly: open(model_file_path, 'rb') and pickle.load
PickleLoad ==
    /\ pc = "pickle_load"
    /\ IF pklFile = "ok"
       THEN /\ pc' = "log_model"
            /\ log' = Append(log, LogEntry("info", "register_model_directly", NoExc))
            /\ exc' = exc
       ELSE DirectRaises(<<>>, IF pklFile = "missing"
                               THEN Exc("FileNotFoundError", "register_model_directly", "open")
                               ELSE Exc("UnpicklingError", "register_model_directly",
                                        "pickle.load"))
    /\ UNCHANGED <<inputs, registry, lastVersion, otherOps, locals, version,
                   outFile, calls, firstError>>

\* register_model_directly: mlflow.start_run() and mlflow.sklearn.log_model
\* with registered_model_name, which registers a new version
LogModel ==
    /\ pc = "log_model"
    /\ \E outcome \in {"start_run fails", "log_model fails", "ok"} :
         IF outcome = "ok"
         THEN /\ registry' = registry \cup {NewVersion(model_uri("new_run", "model"))}
              /\ lastVersion' = lastVersion + 1
              /\ calls' = Append(calls, Call("log_model", model_name,
                                             ToStr(lastVersion + 1), TRUE))
              /\ log' = Append(log, LogEntry("info", "register_model_directly", NoExc))
              /\ pc' = "search_model_versions"
              /\ exc' = exc
         ELSE /\ DirectRaises(<<>>, Exc("MlflowException", "register_model_directly",
                                        IF outcome = "start_run fails"
                                        THEN "start_run" ELSE "log_model"))
              /\ calls' = IF outcome = "start_run fails" THEN calls
                          ELSE Append(calls, Call("log_model", model_name, <<>>, FALSE))
              /\ UNCHANGED <<registry, lastVersion>>
    /\ UNCHANGED <<inputs, otherOps, locals, version, outFile, firstError>>

\* register_model_directly: client.search_model_versions and the choice of
\* latest_version among its results
SearchModelVersions ==
    /\ pc = "search_model_versions"
    /\ \E ok \in BOOLEAN :
         LET model_versions == VersionList(registry)
         IN  /\ calls' = Append(calls, Call("search_model_versions", model_name,
                                            <<>>, ok))
             /\ IF ~ok
                THEN /\ DirectRaises(<<>>, Exc("MlflowException", "register_model_directly",
                                          "search_model_versions"))
                     /\ UNCHANGED latest_version
                ELSE IF model_versions = <<>>
                THEN /\ DirectRaises(<<>>, Exc("ValueError", "register_model_directly",
                                          "not model_versions"))
                     /\ UNCHANGED latest_version
                ELSE /\ latest_version' = latest_version_of(model_versions)
                     /\ log' = Append(log, LogEntry("info", "register_model_directly", NoExc))
                     /\ pc' = "transition_direct"
                     /\ exc' = exc
    /\ UNCHANGED <<inputs, registry, lastVersion, otherOps, run_id, model_path,
                   model_file_path, artifacts, model_details, version, outFile,
                   firstError>>

\* register_model_directly: transition_model_version_stage of
\* str(latest_version) to "Staging" and the return of str(latest_version)
TransitionDirect ==
    /\ pc = "transition_direct"
    /\ \E reachable \in BOOLEAN :
         LET vstr == ToStr(latest_version)
             ok == reachable /\ HasVersion(vstr)
         IN  /\ calls' = Append(calls, Call("transition_model_version_stage",
                                            model_name, vstr, ok))
             /\ IF ok
                THEN /\ registry' = Transitioned(vstr, "Staging")
                     /\ version' = register_model_directly_return(latest_version)
                     /\ log' = Append(log, LogEntry("info", "register_model_directly", NoExc))
                     /\ pc' = "save"
                     /\ exc' = exc
                ELSE /\ DirectRaises(<<>>, Exc("MlflowException", "register_model_directly",
                                               "transition_model_version_stage"))
                     /\ UNCHANGED <<registry, version>>
    /\ UNCHANGED <<inputs, lastVersion, otherOps, locals, outFile, firstError>>

\* main: save_registered_model_info(model_name, version,
\* 'reports/registered_model_info.json')
SaveRegisteredModelInfo ==
    /\ pc = "save"
    /\ \E writable \in BOOLEAN :
         IF writable
         THEN /\ outFile' = [written |-> TRUE,
                             json |-> registered_info(model_name, version)]
              /\ log' = Append(log, LogEntry("info", "save_registered_model_info", NoExc))
              /\ pc' = "done"
              /\ exc' = exc
         ELSE LET h == save_registered_model_info_except(Exc("OSError", "save_registered_model_info", "open"))
              IN  /\ MainRaises(h.entries, h.raised)
                  /\ outFile' = outFile
    /\ UNCHANGED <<inputs, registry, lastVersion, otherOps, locals, version,
                   calls, firstError>>

\* another client of the registry registers a version of the model
OtherRegister ==
    /\ Running
    /\ otherOps < MaxOtherOps
    /\ registry' = registry \cup {NewVersion("other")}
    /\ lastVersion' = lastVersion + 1
    /\ otherOps' = otherOps + 1
    /\ UNCHANGED <<pc, inputs, locals, version, outFile, exc, log, calls,
                   firstError>>

\* another client of the registry deletes a version of the model
OtherDelete ==
    /\ Running
    /\ otherOps < MaxOtherOps
    /\ \E mv \in registry : registry' = registry \ {mv}
    /\ otherOps' = otherOps + 1
    /\ UNCHANGED <<pc, inputs, lastVersion, locals, version, outFile, exc, log,
                   calls, firstError>>

MainNext ==
    \/ LoadModelInfo
    \/ VerifyRunArtifacts
    \/ RegisterModel
    \/ TransitionFromRun
    \/ PickleLoad
    \/ LogModel
    \/ SearchModelVersions
    \/ TransitionDirect
    \/ SaveRegisteredModelInfo

Next == MainNext \/ OtherRegister \/ OtherDelete

Spec == Init /\ [][Next]_vars

\* the runs in which other clients only register versions
NextRegistering == MainNext \/ OtherRegister

SpecRegistering == Init /\ [][NextRegistering]_vars

\* ----------------------------------------------------------------- claims
FallbackFile == "./models/model.pkl"
DirectCalled == model_file_path = FallbackFile
Succeeded(api) == {i \in 1..Len(calls) : calls[i].api = api /\ calls[i].ok}
Failed(api) == {i \in 1..Len(calls) : calls[i].api = api /\ ~calls[i].ok}
ErrorsLoggedBy(fn) ==
    {log[i].exc : i \in {j \in 1..Len(log) : log[j].level = "error" /\ log[j].fn = fn}}
Elements(list) == {list[i] : i \in 1..Len(list)}

\* C1 as stated: whenever the from-run attempt ends with an error, whatever
\* the error, main goes on to call register_model_directly on
\* ./models/model.pkl.
C1_FallbackOnAnyError == firstError # NoExc => DirectCalled

\* C1 amended: when the from-run attempt ends with a FileNotFoundError or a
\* ValueError (JSONDecodeError is one), main calls register_model_directly on
\* ./models/model.pkl; when it ends with any other error, main ends with
\* that error and register_model_directly is never called.
C1_FallbackOnCaughtErrors ==
    firstError # NoExc =>
        IF firstError.cls \in {"FileNotFoundError", "ValueError", "JSONDecodeError"}
        THEN DirectCalled
        ELSE /\ ~DirectCalled
             /\ pc = "raised"
             /\ exc = firstError
             /\ Succeeded("log_model") \cup Failed("log_model") = {}

C1_Witness ==
    /\ firstError.cls = "JSONDecodeError"
    /\ DirectCalled
    /\ pc = "done"

\* C2: an error raised in load_model_info, register_model_from_run,
\* register_model_directly, save_registered_model_info or main is logged by
\* the function that raised it and reaches the caller as the same exception;
\* only verify_run_artifacts answers an error with a value: it never raises
\* and returns the empty list when the listing fails; main ends with
\* registered_model_info.json written or with an exception, and always ends.
C2_ErrorsLoggedAndReraised ==
    /\ ErrorsLoggedBy("load_model_info") \subseteq {firstError}
    /\ ErrorsLoggedBy("register_model_from_run") \subseteq {firstError}
    /\ ErrorsLoggedBy("register_model_directly") \subseteq {exc}
    /\ ErrorsLoggedBy("save_registered_model_info") \subseteq {exc}
    /\ ErrorsLoggedBy("main") \subseteq {exc}
    /\ firstError # NoExc =>
          /\ firstError.fn # "verify_run_artifacts"
          /\ firstError \in ErrorsLoggedBy(firstError.fn)
    /\ Failed("list_artifacts") # {} =>
          /\ artifacts = <<>>
          /\ ErrorsLoggedBy("verify_run_artifacts") # {}
    /\ pc = "raised" =>
          /\ exc # NoExc
          /\ exc.fn # "verify_run_artifacts"
          /\ exc \in ErrorsLoggedBy(exc.fn)
          /\ log[Len(log)] = LogEntry("error", "main", exc)
    /\ pc = "done" => outFile.written /\ exc = NoExc
    /\ pc # "raised" => exc = NoExc
    /\ Running => ENABLED MainNext

C2_Witness ==
    /\ pc = "raised"
    /\ Failed("list_artifacts") # {}
    /\ firstError.cls = "ValueError"
    /\ exc.fn = "register_model_directly"

\* C3: when registered_model_info.json is written, its object has exactly the
\* keys model_name, version and stage; model_name is the name the version was
\* registered and staged under, stage is "Staging", and version is a string,
\* the one the path that succeeded returned: the version mlflow.register_model
\* gave (from-run) or the decimal string of latest_version (direct).
C3_SavedInfo ==
    outFile.written =>
        /\ DOMAIN outFile.json = {"model_name", "version", "stage"}
        /\ outFile.json.stage = "Staging"
        /\ Succeeded("transition_model_version_stage") # {}
        /\ \A i \in Succeeded("transition_model_version_stage") :
               calls[i].arg = outFile.json.model_name
        /\ outFile.json.version.type = "str"
        /\ outFile.json.version = version
        /\ IF DirectCalled
           THEN /\ ToInt(version.v) = latest_version
                /\ version.v[1] # "0"
           ELSE \E i \in Succeeded("register_model") : calls[i].version = version.v

C3_Witness ==
    /\ outFile.written
    /\ DirectCalled
    /\ outFile.json.version.v = <<"1", "0">>

\* C4: when register_model_from_run returns, the registry holds a version
\* whose source is "runs:/<run_id>/<model_path>" with the run_id and
\* model_path of experiment_info.json, that version was created by this call
\* (its number is above every version there was), it is in stage "Staging",
\* and its version string is what main receives.
C4_FromRunRegistersAndStages ==
    [][/\ (pc = "register_model" /\ pc' = "transition_from_run") =>
             \E mv \in registry' \ registry :
                 /\ \A o \in registry : o.version < mv.version
                 /\ mv.source = "runs:/" \o expInfo.json["run_id"] \o "/"
                                 \o expInfo.json["model_path"]
                 /\ model_details' = ToStr(mv.version)
       /\ (pc = "transition_from_run" /\ pc' = "save") =>
             \E mv \in registry' :
                 /\ mv.source = "runs:/" \o expInfo.json["run_id"] \o "/"
                                 \o expInfo.json["model_path"]
                 /\ mv.stage = "Staging"
                 /\ ToStr(mv.version) = model_details
                 /\ version' = PyStr(ToStr(mv.version))
                 /\ registry' \ {mv} = registry \ {[mv EXCEPT !.stage = "None"]}
      ]_vars

C4_Witness ==
    /\ pc = "save"
    /\ ~DirectCalled
    /\ otherOps > 0
    /\ version = PyStr(<<"1", "0">>)
    /\ \E mv \in registry : mv.source = "runs:/r1/model.pkl" /\ mv.stage = "Staging"

\* C5: mlflow.register_model is called only when model_path is one of the
\* paths the artifact listing of the run returned; when it is not, or the
\* listing failed (the result is the empty list), the from-run attempt ends
\* with the ValueError without register_model or a stage transition having
\* been called, and main calls register_model_directly.
C5_RegisterOnlyListedArtifact ==
    /\ Succeeded("register_model") \cup Failed("register_model") # {} =>
          /\ Succeeded("list_artifacts") # {}
          /\ model_path \in Elements(runArtifacts)
    /\ (Succeeded("list_artifacts") \cup Failed("list_artifacts") # {}
        /\ model_path \notin Elements(artifacts)) =>
          /\ firstError = Exc("ValueError", "register_model_from_run",
                              "model_path not in artifacts")
          /\ Succeeded("register_model") \cup Failed("register_model") = {}
          /\ \A i \in 1..Len(calls) :
                calls[i].api = "transition_model_version_stage" =>
                    \E j \in 1..(i - 1) : calls[j].api = "log_model"
          /\ DirectCalled
    /\ Failed("list_artifacts") # {} => artifacts = <<>>

C5_Witness ==
    /\ Succeeded("list_artifacts") # {}
    /\ artifacts = <<"metrics", "model">>
    /\ model_path = "model.pkl"
    /\ pc = "search_model_versions"

\* C6: the version register_model_directly stages and returns is the version
\* its own log_model call created, also when another client registers a
\* version of the model between log_model and search_model_versions.
C6_StagesOwnVersion ==
    (DirectCalled /\ pc \in {"save", "done"}) =>
        \A i \in Succeeded("log_model") :
            /\ version.v = calls[i].version
            /\ \E mv \in registry :
                  ToStr(mv.version) = calls[i].version /\ mv.stage = "Staging"

\* C7: register_model_directly takes as latest_version the highest version
\* number, as an integer, among the versions the search returned, stages that
\* version and returns its decimal string; when the search returns no
\* version it raises ValueError and makes no stage transition.
C7_LatestVersionByNumber ==
    [][/\ (pc = "search_model_versions" /\ pc' = "transition_direct") =>
             /\ latest_version' \in {mv.version : mv \in registry}
             /\ \A mv \in registry : mv.version <= latest_version'
       /\ (pc = "transition_direct" /\ pc' = "save") =>
             /\ version'.type = "str"
             /\ ToInt(version'.v) = latest_version
             /\ version'.v[1] # "0"
             /\ \E mv \in registry :
                   /\ mv.version = latest_version
                   /\ registry' = (registry \ {mv}) \cup {[mv EXCEPT !.stage = "Staging"]}
       /\ (pc = "search_model_versions" /\ pc' # pc /\ registry = {}) =>
             /\ pc' = "raised"
             /\ registry' = registry
             /\ calls'[Len(calls')].api = "search_model_versions"
             /\ calls'[Len(calls')].ok =>
                   exc' = Exc("ValueError", "register_model_directly",
                              "not model_versions")
      ]_vars

C7_Witness ==
    /\ pc = "transition_direct"
    /\ latest_version = 10
    /\ \E mv \in registry : mv.version = 9

\* the search returns no version: the model's only version was deleted
C7_NoVersionsReached ==
    /\ pc = "raised"
    /\ exc = Exc("ValueError", "register_model_directly", "not model_versions")
    /\ registry = {}

====
